---- MODULE Spec2Model ----
(***************************************************************************)
(* Model of model/posefusion.py: BaseFormer, PosePredictor, FusionBlock,   *)
(* PoseFusion and PoseNet.  Tensors of the fusion pipeline are modelled by *)
(* their shape; the tensors of PosePredictor by shape and row-major data,  *)
(* so that view / index_select / transpose are computed, not assumed.      *)
(* Python exceptions are outcomes [kind |-> "raise", exc |-> ...]; a local *)
(* name that was never assigned is Unbound and reading it raises           *)
(* UnboundLocalError.                                                      *)
(***************************************************************************)
EXTENDS Integers, Sequences, FiniteSets, TLC

VARIABLES obj, args, res

vars == <<obj, args, res>>

(* ------------------------------ bounds --------------------------------- *)
MaxLatent == 2
MaxLayers == 2
MaxPoints == 2
MaxObj == 2
MaxBatch == 1
MaxLoss == 2

(* base_latent values: multiples of 4, so that every BaseFormer the code   *)
(* builds has an embedding dimension its number of heads divides.          *)
Latents == {4 * k : k \in 1..MaxLatent}
EmbedDims == {8 * k : k \in 1..MaxLatent}
Layers == 0..MaxLayers
Points == 1..MaxPoints
Batches == 1..MaxBatch
Losses == 1..MaxLoss

(* --------------------------- Python values ----------------------------- *)
None == [class |-> "NoneType"]
Tensor(shape) == [class |-> "Tensor", shape |-> shape]
Loss(v) == [class |-> "Number", v |-> v]
Unbound == [class |-> "<unbound>"]
\* no call has been made yet
NoCall == [op |-> ""]

Ok(v) == [kind |-> "ok", value |-> v]
Raise(e) == [kind |-> "raise", exc |-> e]

(* ------------------------- tensor shape algebra ------------------------ *)
\* tensor.transpose(2, 1) on a 3-d shape
Transpose21(s) == <<s[1], s[3], s[2]>>

\* torch.cat([a, b], dim) on two 3-d shapes (the other axes agree or torch raises)
CatOk(a, b, dim) == \A i \in 1..3 : i # dim + 1 => a[i] = b[i]
Cat(a, b, dim) == [i \in 1..3 |-> IF i = dim + 1 THEN a[i] + b[i] ELSE a[i]]

(* ------------------------------ BaseFormer ----------------------------- *)
BaseFormer_init(feat_dim, embedding_dim, n_heads, n_layers, encoder_type, require_adl) ==
    [class |-> "BaseFormer", feat_dim |-> feat_dim, embedding_dim |-> embedding_dim,
     n_heads |-> n_heads, n_layers |-> n_layers, encoder_type |-> encoder_type,
     require_adl |-> require_adl]

\* nn.Conv1d(feat_dim, embedding_dim, 1) followed by .transpose(2, 1)
LinearProjectionOk(self, feat) == feat.shape[2] = self.feat_dim
LinearProjection(self, feat) ==
    Tensor(Transpose21(<<feat.shape[1], self.embedding_dim, feat.shape[3]>>))

\* the sub-operations one stock encoder layer applies to the embeddings
\* (post-norm nn.TransformerEncoderLayer: self_attn = in-projection,
\* attention, out-projection)
StockLayer(i) ==
    << <<"self_attn.in_proj", i>>, <<"self_attn.attention", i>>,
       <<"self_attn.out_proj", i>>, <<"dropout1", i>>, <<"residual", i>>,
       <<"norm1", i>>, <<"_ff_block", i>>, <<"residual", i>>, <<"norm2", i>> >>

\* simplified_attention_forward: it is handed in_proj_weight and in_proj_bias only
SimplifiedAttention(i) ==
    << <<"self_attn.in_proj", i>>, <<"self_attn.attention", i>> >>

\* one iteration of the diagnostic loop of BaseFormer.forward
ManualLayer(i) ==
    SimplifiedAttention(i) \o
    << <<"dropout1", i>>, <<"residual", i>>, <<"norm1", i>>,
       <<"_ff_block", i>>, <<"residual", i>>, <<"norm2", i>> >>

RECURSIVE StockStack(_, _)
StockStack(i, n) == IF i >= n THEN <<>> ELSE StockLayer(i) \o StockStack(i + 1, n)

RECURSIVE ManualStack(_, _)
ManualStack(i, n) == IF i >= n THEN <<>> ELSE ManualLayer(i) \o ManualStack(i + 1, n)

\* BaseFormer.forward; adl_val is what attn_diverse_loss returns for this call.
\* trace is the sequence of sub-operations applied to the embeddings.
BaseFormer_forward(self, feat, adl_val) ==
    IF ~LinearProjectionOk(self, feat) THEN [out |-> Raise("RuntimeError"), trace |-> <<>>]
    ELSE
      LET embeddings == LinearProjection(self, feat)
          body == IF ~self.require_adl
                     THEN StockStack(0, self.n_layers)
                     ELSE ManualStack(0, self.n_layers)
          trace == << <<"linear_projection", -1>> >> \o body \o << <<"norm", -1>> >>
      IN [out |-> IF ~self.require_adl
                     THEN Ok(embeddings)
                     ELSE Ok(<<embeddings, Loss(adl_val)>>),
          trace |-> trace]

\* the loop of BaseFormer.get_attention_map from layer i on; ran = layers run so far
RECURSIVE AttentionLoop(_, _, _, _)
AttentionLoop(self, i, layer_id, ran) ==
    IF i >= self.n_layers THEN Ok(None)
    ELSE IF i < layer_id THEN AttentionLoop(self, i + 1, layer_id, Append(ran, i))
    ELSE Ok([class |-> "AttnMap", layer |-> i, ran |-> ran,
             heads |-> self.n_heads, dim |-> self.embedding_dim])

\* the range check of get_attention_map, off by one at the upper end
LayerIdInvalidOffByOne(layer_id, n_layers) == layer_id > n_layers \/ layer_id < 0

\* the range check of get_attention_map
LayerIdInvalid(layer_id, n_layers) == layer_id >= n_layers \/ layer_id < 0

\* BaseFormer.get_attention_map; layer_id is None or Loss(n) (a Python int)
BaseFormer_get_attention_map(self, feat, layer_id) ==
    IF self.encoder_type = "customized" THEN Raise("NotImplementedError")
    ELSE IF self.encoder_type = "pytorch" THEN
      LET lid == IF layer_id = None THEN self.n_layers - 1 ELSE layer_id.v
      IN IF LayerIdInvalid(lid, self.n_layers) THEN Raise("ValueError")
         ELSE IF ~LinearProjectionOk(self, feat) THEN Raise("RuntimeError")
         ELSE AttentionLoop(self, 0, lid, <<>>)
    ELSE Ok(None)

(* ----------------------------- PosePredictor -------------------------- *)
\* tensors with contents: data is the row-major sequence of the elements
TensorD(shape, data) == [class |-> "Tensor", shape |-> shape, data |-> data]

RECURSIVE Numel(_)
Numel(shape) == IF shape = <<>> THEN 1 ELSE Head(shape) * Numel(Tail(shape))

\* MLPs(feat_dim, out_ch) applied to ap_x[bs, feat_dim, n]: element (b, ch, p) of
\* the output of head `name` is the symbolic value <<name, b, ch, p>>
MLPs(name, out_ch, ap_x) ==
    LET bs == ap_x.shape[1]
        n == ap_x.shape[3]
    IN TensorD(<<bs, out_ch, n>>,
               [f \in 1..(bs * out_ch * n) |->
                   <<name, (f - 1) \div (out_ch * n), ((f - 1) \div n) % out_ch, (f - 1) % n>>])

\* torch.sigmoid, elementwise
Sigmoid(t) == TensorD(t.shape, [f \in 1..Len(t.data) |-> <<"sigmoid", t.data[f]>>])

\* tensor.view(shape): same data, new shape, same number of elements
ViewOk(t, shape) == Numel(shape) = Numel(t.shape)
View(t, shape) == TensorD(shape, t.data)

\* t[b]
Index0(t, b) ==
    LET sub == Tail(t.shape)
        m == Numel(sub)
    IN TensorD(sub, SubSeq(t.data, b * m + 1, (b + 1) * m))

IndexSelectOk(t, index) == \A i \in 1..Len(index) : index[i] >= 0 /\ index[i] < t.shape[1]
\* index_select that ignores the index and always takes row 0
IndexSelectBroken(t, index) ==
    LET sub == Tail(t.shape)
        m == Numel(sub)
    IN TensorD(<<Len(index)>> \o sub,
               [f \in 1..(Len(index) * m) |-> t.data[((f - 1) % m) + 1]])

\* torch.index_select(t, 0, index), index a 1-d tensor of row numbers
IndexSelect(t, index) ==
    LET sub == Tail(t.shape)
        m == Numel(sub)
    IN TensorD(<<Len(index)>> \o sub,
               [f \in 1..(Len(index) * m) |->
                   t.data[index[((f - 1) \div m) + 1] * m + ((f - 1) % m) + 1]])

\* tensor.transpose(2, 1).contiguous() on a 3-d tensor with contents
TransposeD(t) ==
    LET a == t.shape[1]
        b == t.shape[2]
        c == t.shape[3]
    IN TensorD(<<a, c, b>>,
               [f \in 1..(a * b * c) |->
                   LET i == (f - 1) \div (c * b)
                       k == ((f - 1) \div b) % c
                       j == (f - 1) % b
                   IN t.data[(i * b + j) * c + k + 1]])

\* element (i, j, k) of a 3-d tensor with contents
At3(t, i, j, k) == t.data[(i * t.shape[2] + j) * t.shape[3] + k + 1]

PosePredictor_init(feat_dim, num_points, num_obj) ==
    [class |-> "PosePredictor", feat_dim |-> feat_dim, num_points |-> num_points,
     num_obj |-> num_obj]

\* index_select and transpose of one head, on row = rx[b]
SelectedRows(row, index) ==
    IF ~IndexSelectOk(row, index) THEN Raise("IndexError")
    ELSE Ok(TransposeD(IndexSelect(row, index)))

\* one head of PosePredictor.forward: view, pick batch element b = 0, select, transpose
PoseHead(self, t, width, bs, index) ==
    IF ~ViewOk(t, <<bs, self.num_obj, width, self.num_points>>) THEN Raise("RuntimeError")
    ELSE SelectedRows(Index0(View(t, <<bs, self.num_obj, width, self.num_points>>), 0), index)

\* the return statement of PosePredictor.forward
PoseReturn(rx, tx, cx) ==
    IF rx.kind = "raise" THEN rx
    ELSE IF tx.kind = "raise" THEN tx
    ELSE IF cx.kind = "raise" THEN cx
    ELSE Ok(<<rx.value, tx.value, cx.value>>)

\* PosePredictor.forward(ap_x, obj); objt is the tensor obj as a sequence of rows
PosePredictor_forward(self, ap_x, objt) ==
    IF ap_x.shape[2] # self.feat_dim THEN Raise("RuntimeError")
    ELSE PoseReturn(
           PoseHead(self, MLPs("conv_r", self.num_obj * 4, ap_x), 4, ap_x.shape[1], objt[1]),
           PoseHead(self, MLPs("conv_t", self.num_obj * 3, ap_x), 3, ap_x.shape[1], objt[1]),
           PoseHead(self, Sigmoid(MLPs("conv_c", self.num_obj * 1, ap_x)), 1, ap_x.shape[1],
                    objt[1]))

(* ------------------------------ FusionBlock ---------------------------- *)
\* a stage that is built even with no layers
StagePresentAlways(n_layer) == n_layer >= 0

\* "if n_layer_m > 0", "if n_layer_p > 0": the stage is built
StagePresent(n_layer) == n_layer > 0

\* a modality_dim that forgets the cross feature
ModalityDimNoCross(n_layer_m, base_latent) == 2 * base_latent

\* the input channels the point-fusion BaseFormer is built for
ModalityDim(n_layer_m, base_latent) ==
    IF StagePresent(n_layer_m) THEN 4 * base_latent ELSE 2 * base_latent

FusionBlock_init(base_latent, embed_dim, n_layer_m, n_layer_p, require_adl) ==
    LET modality_fusion ==
            IF StagePresent(n_layer_m)
               THEN BaseFormer_init(base_latent, base_latent, 4, n_layer_m, "pytorch", require_adl)
               ELSE None
        modality_dim == ModalityDim(n_layer_m, base_latent)
        point_fusion ==
            IF StagePresent(n_layer_p)
               THEN BaseFormer_init(modality_dim, embed_dim, 8, n_layer_p, "pytorch", require_adl)
               ELSE None
    IN IF ~(modality_fusion # None \/ point_fusion # None) THEN Raise("AssertionError")
       ELSE Ok([class |-> "FusionBlock", embed_dim |-> embed_dim, require_adl |-> require_adl,
                modality_fusion |-> modality_fusion, point_fusion |-> point_fusion])

\* the locals of FusionBlock.forward at its entry
ForwardLocals ==
    [exc |-> "", cross_feat |-> None, global_feat |-> None, adl |-> Unbound,
     attn1 |-> Unbound, attn2 |-> Unbound, point_in |-> None]

Fail(env, e) == [env EXCEPT !.exc = e]

\* rearrange(hidden_state, 'b (k d) n -> b d (k n)', k=2)
RearrangeHiddenOk(s) == s[2] % 2 = 0
RearrangeHidden(s) == <<s[1], s[2] \div 2, 2 * s[3]>>

\* rearrange(feat, 'b (k n) d -> b n (k d)', k=2).transpose(2, 1)
RearrangeCrossOk(s) == s[2] % 2 = 0
RearrangeCross(s) == Transpose21(<<s[1], s[2] \div 2, 2 * s[3]>>)

\* ModalityStage once the attention map is there (attn: its outcome, or the
\* unassigned attn1 when require_attn is off): adl, feat, cross_feat
ModalityTail(self, env, call, attn) ==
    IF attn.kind = "raise" THEN Fail(env, attn.exc)
    ELSE IF ~RearrangeCrossOk((IF self.require_adl THEN call.value[1] ELSE call.value).shape)
         THEN Fail(env, "EinopsError")
    ELSE [env EXCEPT
            !.adl = IF self.require_adl THEN call.value[2] ELSE env.adl,
            !.attn1 = attn.value,
            !.cross_feat =
                Tensor(RearrangeCross(
                    (IF self.require_adl THEN call.value[1] ELSE call.value).shape))]

\* ModalityStage once self.modality_fusion(hidden_state) has returned `call`
ModalityBody(self, env, hs, call, require_attn) ==
    IF call.kind = "raise" THEN Fail(env, call.exc)
    ELSE ModalityTail(self, env, call,
                      IF require_attn
                         THEN BaseFormer_get_attention_map(self.modality_fusion, hs, None)
                         ELSE Ok(env.attn1))

\* FusionBlock.forward, the "if self.modality_fusion is not None" part
ModalityStage(self, env, rgb_emb, pt_emb, hidden_state, require_attn, adl_m) ==
    IF self.modality_fusion = None THEN env
    ELSE IF ~CatOk(rgb_emb.shape, pt_emb.shape, 2) THEN Fail(env, "RuntimeError")
    ELSE IF hidden_state # None /\ ~RearrangeHiddenOk(hidden_state.shape)
         THEN Fail(env, "EinopsError")
    ELSE IF hidden_state # None
            /\ RearrangeHidden(hidden_state.shape) # Cat(rgb_emb.shape, pt_emb.shape, 2)
         THEN Fail(env, "RuntimeError")
    ELSE ModalityBody(self, env, Tensor(Cat(rgb_emb.shape, pt_emb.shape, 2)),
                      BaseFormer_forward(self.modality_fusion,
                                         Tensor(Cat(rgb_emb.shape, pt_emb.shape, 2)),
                                         adl_m).out,
                      require_attn)

\* PointStage once the attention map is there: adl, global_feat, attn2
PointTail(self, env, call, attn) ==
    IF attn.kind = "raise" THEN Fail(env, attn.exc)
    ELSE [env EXCEPT
            !.adl = IF self.require_adl
                       THEN Loss(env.adl.v + call.value[2].v)
                       ELSE env.adl,
            !.attn2 = attn.value,
            !.global_feat =
                Tensor(Transpose21(
                    (IF self.require_adl THEN call.value[1] ELSE call.value).shape))]

\* PointStage once self.point_fusion(feat) has returned `call`; env.point_in = feat
PointBody(self, env, call, require_attn) ==
    IF call.kind = "raise" THEN Fail(env, call.exc)
    ELSE IF self.require_adl /\ env.adl = Unbound THEN Fail(env, "UnboundLocalError")
    ELSE PointTail(self, env, call,
                   IF require_attn
                      THEN BaseFormer_get_attention_map(self.point_fusion, env.point_in, None)
                      ELSE Ok(env.attn2))

\* the input of the point-fusion BaseFormer: torch.cat along the channels
PointInput(env, rgb_emb, pt_emb) ==
    IF env.cross_feat # None
       THEN Tensor(Cat(Cat(rgb_emb.shape, pt_emb.shape, 1), env.cross_feat.shape, 1))
       ELSE Tensor(Cat(rgb_emb.shape, pt_emb.shape, 1))

\* PointStage with env.point_in set to the concatenated input
PointCall(self, env, require_attn, adl_p) ==
    PointBody(self, env, BaseFormer_forward(self.point_fusion, env.point_in, adl_p).out,
              require_attn)

\* FusionBlock.forward, the "if self.point_fusion is not None" part
PointStage(self, env, rgb_emb, pt_emb, require_attn, adl_p) ==
    IF env.exc # "" \/ self.point_fusion = None THEN env
    ELSE IF ~CatOk(rgb_emb.shape, pt_emb.shape, 1) THEN Fail(env, "RuntimeError")
    ELSE IF env.cross_feat # None
            /\ ~CatOk(Cat(rgb_emb.shape, pt_emb.shape, 1), env.cross_feat.shape, 1)
         THEN Fail(env, "RuntimeError")
    ELSE PointCall(self, [env EXCEPT !.point_in = PointInput(env, rgb_emb, pt_emb)],
                   require_attn, adl_p)

\* FusionBlock.forward, the three return statements
ForwardReturn(self, env, require_attn) ==
    IF env.exc # "" THEN Raise(env.exc)
    ELSE IF require_attn THEN
        IF env.attn1 = Unbound \/ env.attn2 = Unbound THEN Raise("UnboundLocalError")
        ELSE Ok(<<env.cross_feat, env.global_feat, env.attn1, env.attn2>>)
    ELSE IF self.require_adl THEN
        IF env.adl = Unbound THEN Raise("UnboundLocalError")
        ELSE Ok(<<env.cross_feat, env.global_feat, env.adl>>)
    ELSE Ok(<<env.cross_feat, env.global_feat>>)

\* the locals of FusionBlock.forward when it leaves; adl_m, adl_p are what
\* attn_diverse_loss returns in the modality and in the point BaseFormer
FusionBlock_locals(self, rgb_emb, pt_emb, hidden_state, require_attn, adl_m, adl_p) ==
    PointStage(self,
               ModalityStage(self, ForwardLocals, rgb_emb, pt_emb, hidden_state,
                             require_attn, adl_m),
               rgb_emb, pt_emb, require_attn, adl_p)

FusionBlock_forward(self, rgb_emb, pt_emb, hidden_state, require_attn, adl_m, adl_p) ==
    ForwardReturn(self,
                  FusionBlock_locals(self, rgb_emb, pt_emb, hidden_state, require_attn,
                                     adl_m, adl_p),
                  require_attn)

(* ------------------------------- PoseFusion ---------------------------- *)
PoseFusion_init(base_latent, embed_dim, n_layer_m, n_layer_p, require_adl) ==
    LET block == FusionBlock_init(base_latent, embed_dim, n_layer_m, n_layer_p, require_adl)
    IN IF block.kind = "raise" THEN block
       ELSE IF embed_dim # 2 * base_latent THEN Raise("AssertionError")
       ELSE Ok([class |-> "PoseFusion", fusion_mode |-> (n_layer_m * n_layer_p > 0),
                require_adl |-> require_adl, layers |-> <<block.value>>])

RECURSIVE FusionLoop(_, _, _, _, _, _, _, _)

\* one iteration of the fusion-mode loop once the block has returned `call`
FusionStep(self, i, result, adl, call, rgb_emb, pt_emb, adl_m, adl_p) ==
    IF call.kind = "raise" THEN call
    ELSE IF Len(call.value) # (IF self.require_adl THEN 3 ELSE 2) THEN Raise("ValueError")
    ELSE IF call.value[1] = None \/ call.value[2] = None THEN Raise("TypeError")
    ELSE IF ~CatOk(call.value[1].shape, call.value[2].shape, 1) THEN Raise("RuntimeError")
    ELSE IF result # None
            /\ ~CatOk(result.shape, Cat(call.value[1].shape, call.value[2].shape, 1), 1)
         THEN Raise("RuntimeError")
    ELSE FusionLoop(self, i + 1,
                    IF result # None
                       THEN Tensor(Cat(result.shape,
                                       Cat(call.value[1].shape, call.value[2].shape, 1), 1))
                       ELSE Tensor(Cat(call.value[1].shape, call.value[2].shape, 1)),
                    IF self.require_adl THEN adl + call.value[3].v ELSE adl,
                    rgb_emb, pt_emb, adl_m, adl_p)

\* the loop of the fusion-mode branch from block i on
FusionLoop(self, i, result, adl, rgb_emb, pt_emb, adl_m, adl_p) ==
    IF i > Len(self.layers) THEN Ok(<<result, Loss(adl)>>)
    ELSE FusionStep(self, i, result, adl,
                    FusionBlock_forward(self.layers[i], rgb_emb, pt_emb, None, FALSE,
                                        adl_m, adl_p),
                    rgb_emb, pt_emb, adl_m, adl_p)

\* the return statement of PoseFusion.forward after the fusion-mode loop
FusionModeReturn(self, loop) ==
    IF loop.kind = "raise" THEN loop
    ELSE IF ~self.require_adl THEN Ok(loop.value[1])
    ELSE Ok(<<loop.value[1], loop.value[2]>>)

\* the single-stage branch once the block has returned `call`, and the return
\* statement, whose adl the branch never assigns
SingleStageReturn(self, call) ==
    IF call.kind = "raise" THEN call
    ELSE IF Len(call.value) # 2 THEN Raise("ValueError")
    ELSE IF ~self.require_adl
         THEN Ok(IF call.value[2] = None THEN call.value[1] ELSE call.value[2])
    ELSE Raise("UnboundLocalError")

PoseFusion_forward(self, rgb_emb, pt_emb, adl_m, adl_p) ==
    IF self.fusion_mode
       THEN FusionModeReturn(self, FusionLoop(self, 1, None, 0, rgb_emb, pt_emb, adl_m, adl_p))
       ELSE SingleStageReturn(self,
                              FusionBlock_forward(self.layers[1], rgb_emb, pt_emb, None, FALSE,
                                                  adl_m, adl_p))

(* --------------------------------- PoseNet ----------------------------- *)
\* the attributes PoseNet.__init__ has assigned when it calls _init_config_check
AssignedBeforeCheck ==
    {"num_points", "num_obj", "base_latent", "embedding_dim", "layer_num_m",
     "layer_num_p", "fusion_mode"}

\* the attributes _init_config_check reads
ConfigCheckReads == {"base_latent", "fusion_block_num", "layer_num_m", "layer_num_p"}

\* PoseNet._init_config_check: reading an attribute that is not there raises
InitConfigCheck(assigned) ==
    IF ConfigCheckReads \subseteq assigned THEN Ok(None) ELSE Raise("AttributeError")

\* the feat_dim PoseNet.__init__ gives PosePredictor
PosePredFeatDim(fusion_mode, base_latent) ==
    IF fusion_mode THEN base_latent * 4 ELSE base_latent * 2

\* PoseNet.__init__ after _init_config_check returned `check`, with the
\* PoseFusion it builds (`fusion`: the outcome of its constructor)
PoseNet_build(check, fusion, num_points, num_obj, base_latent, embedding_dim, layer_num_m, layer_num_p, recon_choice, filter_enhance, require_adl) ==
    IF check.kind = "raise" THEN check
    ELSE IF fusion.kind = "raise" THEN fusion
    ELSE Ok([class |-> "PoseNet", num_points |-> num_points, num_obj |-> num_obj,
             base_latent |-> base_latent, embedding_dim |-> embedding_dim,
             layer_num_m |-> layer_num_m, layer_num_p |-> layer_num_p,
             fusion_mode |-> (layer_num_m * layer_num_p > 0), recon_choice |-> recon_choice,
             filter_enhance |-> filter_enhance, fusion |-> fusion.value,
             require_adl |-> require_adl,
             posepred |-> PosePredictor_init(
                              PosePredFeatDim(layer_num_m * layer_num_p > 0, base_latent),
                              num_points, num_obj)])

PoseNet_init(num_points, num_obj, base_latent, embedding_dim, layer_num_m, layer_num_p, recon_choice, filter_enhance, require_adl) ==
    PoseNet_build(InitConfigCheck(AssignedBeforeCheck),
                  PoseFusion_init(base_latent, embedding_dim, layer_num_m, layer_num_p,
                                  require_adl),
                  num_points, num_obj, base_latent, embedding_dim, layer_num_m, layer_num_p,
                  recon_choice, filter_enhance, require_adl)

\* the return statement of PoseNet.forward once the predictor has returned `pose`
PoseNet_return(pose, rgb_emb, pt_recon, robust_loss) ==
    IF pose.kind = "raise" THEN pose
    ELSE Ok(<<pose.value[1], pose.value[2], pose.value[3], rgb_emb, pt_recon,
              Loss(robust_loss)>>)

\* PoseNet.forward once the fusion has returned `feat`; loss is robust_loss so far
PoseNet_predict(self, feat, objt, rgb_emb, pt_recon, loss) ==
    IF feat.kind = "raise" THEN feat
    ELSE PoseNet_return(
           PosePredictor_forward(self.posepred,
                                 IF self.require_adl THEN feat.value[1] ELSE feat.value,
                                 objt),
           rgb_emb, pt_recon,
           IF self.require_adl THEN loss + feat.value[2].v ELSE loss)

\* PoseNet.forward on a batch of bs items with n chosen points; recon_ref is None
\* or a reference fit for recon_choice; cdl_0, cdl_1 are the losses of the two
\* point encoders, adl_m, adl_p those of attn_diverse_loss
PoseNet_forward(self, bs, n, objt, recon_ref, cdl_0, cdl_1, adl_m, adl_p) ==
    IF self.recon_choice = "both" /\ recon_ref = None THEN Raise("TypeError")
    ELSE PoseNet_predict(self,
                         PoseFusion_forward(self.fusion, Tensor(<<bs, self.base_latent, n>>),
                                            Tensor(<<bs, self.base_latent, n>>), adl_m, adl_p),
                         objt, Tensor(<<bs, self.base_latent, n>>), Tensor(<<bs, n, 3>>),
                         IF self.recon_choice = "both" THEN 0 + cdl_0 + cdl_1 ELSE 0 + cdl_0)

\* the unpacking of the block's return in PoseNet.get_attention_map
AttentionPair(call) ==
    IF call.kind = "raise" THEN call
    ELSE IF Len(call.value) # 4 THEN Raise("ValueError")
    ELSE Ok(<<call.value[3], call.value[4]>>)

PoseNet_get_attention_map(self, bs, n, adl_m, adl_p) ==
    AttentionPair(FusionBlock_forward(self.fusion.layers[1],
                                      Tensor(<<bs, self.base_latent, n>>),
                                      Tensor(<<bs, self.base_latent, n>>), None, TRUE,
                                      adl_m, adl_p))

(* ------------------------------ behaviour ------------------------------ *)
\* obj is the module under use, args the arguments it was constructed with,
\* res the last constructor or method call and its outcome
Init == obj = None /\ args = None /\ res = NoCall

Idle == obj = None /\ res = NoCall

\* a module of class cls has just been constructed.  No method changes the
\* module it is called on, so a call made after other calls reaches no state
\* that a call on the fresh module does not reach.
Fresh(cls) == obj.class = cls /\ res.op = cls \o ".__init__"

Built(out) == IF out.kind = "ok" THEN out.value ELSE None

NewBaseFormer ==
    /\ Idle
    /\ \E fd \in Latents, ed \in EmbedDims, nl \in Layers,
          et \in {"pytorch", "customized", "other"}, adl \in BOOLEAN :
        /\ obj' = BaseFormer_init(fd, ed, 2, nl, et, adl)
        /\ args' = [feat_dim |-> fd, embedding_dim |-> ed, n_layers |-> nl,
                    encoder_type |-> et, require_adl |-> adl]
        /\ res' = [op |-> "BaseFormer.__init__", out |-> Ok(None)]

BaseFormerForward ==
    /\ Fresh("BaseFormer")
    /\ \E b \in Batches, c \in Latents, n \in Points, l \in Losses :
        LET r == BaseFormer_forward(obj, Tensor(<<b, c, n>>), l)
        IN res' = [op |-> "BaseFormer.forward", feat |-> Tensor(<<b, c, n>>),
                   adl_val |-> l, out |-> r.out, trace |-> r.trace]
    /\ UNCHANGED <<obj, args>>

BaseFormerGetAttentionMap ==
    /\ Fresh("BaseFormer")
    /\ \E b \in Batches, c \in Latents, n \in Points,
          lid \in {None} \cup {Loss(k) : k \in -1..(MaxLayers + 1)} :
        res' = [op |-> "BaseFormer.get_attention_map", feat |-> Tensor(<<b, c, n>>),
                layer_id |-> lid,
                out |-> BaseFormer_get_attention_map(obj, Tensor(<<b, c, n>>), lid)]
    /\ UNCHANGED <<obj, args>>

NewPosePredictor ==
    /\ Idle
    /\ \E fd \in EmbedDims, np \in Points, no \in 1..MaxObj :
        /\ obj' = PosePredictor_init(fd, np, no)
        /\ args' = [feat_dim |-> fd, num_points |-> np, num_obj |-> no]
        /\ res' = [op |-> "PosePredictor.__init__", out |-> Ok(None)]

PosePredictorForward ==
    /\ Fresh("PosePredictor")
    /\ \E bs \in Batches, c \in EmbedDims, n \in Points, o \in 0..MaxObj :
        LET ap_x == Tensor(<<bs, c, n>>)
            objt == [b \in 1..bs |-> IF b = 1 THEN <<o>> ELSE <<0>>]
        IN res' = [op |-> "PosePredictor.forward", ap_x |-> ap_x, obj |-> objt,
                   out |-> PosePredictor_forward(obj, ap_x, objt)]
    /\ UNCHANGED <<obj, args>>

NewFusionBlock ==
    /\ Idle
    /\ \E bl \in Latents, ed \in EmbedDims, m \in Layers, p \in Layers, adl \in BOOLEAN :
        LET out == FusionBlock_init(bl, ed, m, p, adl)
        IN /\ obj' = Built(out)
           /\ args' = [base_latent |-> bl, embed_dim |-> ed, n_layer_m |-> m,
                       n_layer_p |-> p, require_adl |-> adl]
           /\ res' = [op |-> "FusionBlock.__init__", out |-> out]

FusionBlockForward ==
    /\ Fresh("FusionBlock")
    /\ \E b \in Batches, c \in Latents, n \in Points, hidden \in BOOLEAN,
          require_attn \in BOOLEAN, adl_m \in Losses, adl_p \in Losses :
        LET emb == Tensor(<<b, c, n>>)
            hidden_state == IF hidden THEN Tensor(<<b, 2 * c, n>>) ELSE None
            env == FusionBlock_locals(obj, emb, emb, hidden_state, require_attn, adl_m, adl_p)
        IN res' = [op |-> "FusionBlock.forward", rgb_emb |-> emb, pt_emb |-> emb,
                   hidden_state |-> hidden_state, require_attn |-> require_attn,
                   adl_m |-> adl_m, adl_p |-> adl_p, point_in |-> env.point_in,
                   out |-> ForwardReturn(obj, env, require_attn)]
    /\ UNCHANGED <<obj, args>>

NewPoseFusion ==
    /\ Idle
    /\ \E bl \in Latents, ed \in EmbedDims, m \in Layers, p \in Layers, adl \in BOOLEAN :
        LET out == PoseFusion_init(bl, ed, m, p, adl)
        IN /\ obj' = Built(out)
           /\ args' = [base_latent |-> bl, embed_dim |-> ed, n_layer_m |-> m,
                       n_layer_p |-> p, require_adl |-> adl]
           /\ res' = [op |-> "PoseFusion.__init__", out |-> out]

PoseFusionForward ==
    /\ Fresh("PoseFusion")
    /\ \E b \in Batches, c \in Latents, n \in Points, adl_m \in Losses, adl_p \in Losses :
        LET emb == Tensor(<<b, c, n>>)
        IN res' = [op |-> "PoseFusion.forward", rgb_emb |-> emb, pt_emb |-> emb,
                   adl_m |-> adl_m, adl_p |-> adl_p,
                   out |-> PoseFusion_forward(obj, emb, emb, adl_m, adl_p)]
    /\ UNCHANGED <<obj, args>>

\* the argument tuples of PoseNet(...) the model enumerates
PoseNetArgs ==
    [num_points : Points, num_obj : 1..MaxObj, base_latent : Latents,
     embedding_dim : EmbedDims, layer_num_m : Layers, layer_num_p : Layers,
     recon_choice : {"depth", "both"}, filter_enhance : BOOLEAN, require_adl : BOOLEAN]

PoseNet_new(a) ==
    PoseNet_init(a.num_points, a.num_obj, a.base_latent, a.embedding_dim, a.layer_num_m,
                 a.layer_num_p, a.recon_choice, a.filter_enhance, a.require_adl)

NewPoseNet ==
    /\ Idle
    /\ \E a \in PoseNetArgs :
        /\ res' = [op |-> "PoseNet.__init__", out |-> PoseNet_new(a)]
        /\ obj' = Built(res'.out)
        /\ args' = a

\* the losses the collaborators return in one call of PoseNet.forward
ForwardLosses == [cdl_0 : Losses, cdl_1 : Losses, adl_m : Losses, adl_p : Losses]

\* recon_ref as the caller passes it for a recon_choice
ReconRef(recon_choice, n) ==
    IF recon_choice = "both" THEN <<Tensor(<<1, n, 3>>), Tensor(<<1, n, 3>>)>> ELSE None

\* net(img, x, choose, obj, recon_ref) on the outcome `net` of PoseNet(...)
ForwardOn(net, a, o, l) ==
    IF net.kind = "raise" THEN net
    ELSE PoseNet_forward(net.value, 1, a.num_points, <<<<o>>>>,
                         ReconRef(a.recon_choice, a.num_points),
                         l.cdl_0, l.cdl_1, l.adl_m, l.adl_p)

\* net = PoseNet(...); net(img, x, choose, obj, recon_ref)
PoseNetForward ==
    /\ Idle
    /\ \E a \in PoseNetArgs, l \in ForwardLosses :
        \E o \in 0..(a.num_obj - 1) :
           /\ obj' = Built(PoseNet_new(a))
           /\ args' = a
           /\ res' = [op |-> "PoseNet.forward", obj |-> <<<<o>>>>,
                      cdl_0 |-> l.cdl_0, cdl_1 |-> l.cdl_1,
                      adl_m |-> l.adl_m, adl_p |-> l.adl_p,
                      out |-> ForwardOn(PoseNet_new(a), a, o, l)]

\* net.get_attention_map(img, x, choose) on the outcome `net` of PoseNet(...)
AttentionMapOn(net, a, l) ==
    IF net.kind = "raise" THEN net
    ELSE PoseNet_get_attention_map(net.value, 1, a.num_points, l.adl_m, l.adl_p)

\* net = PoseNet(...); net.get_attention_map(img, x, choose)
PoseNetGetAttentionMap ==
    /\ Idle
    /\ \E a \in PoseNetArgs, l \in [adl_m : Losses, adl_p : Losses] :
           /\ obj' = Built(PoseNet_new(a))
           /\ args' = a
           /\ res' = [op |-> "PoseNet.get_attention_map",
                      adl_m |-> l.adl_m, adl_p |-> l.adl_p,
                      out |-> AttentionMapOn(PoseNet_new(a), a, l)]

\* the module and the last outcome are dropped
Drop ==
    /\ ~Idle
    /\ obj' = None /\ args' = None /\ res' = NoCall

Next ==
    \/ NewBaseFormer
    \/ BaseFormerForward
    \/ BaseFormerGetAttentionMap
    \/ NewPosePredictor
    \/ PosePredictorForward
    \/ NewFusionBlock
    \/ FusionBlockForward
    \/ NewPoseFusion
    \/ PoseFusionForward
    \/ NewPoseNet
    \/ PoseNetForward
    \/ PoseNetGetAttentionMap
    \/ Drop

Spec == Init /\ [][Next]_vars

(* ------------------------------ properties ----------------------------- *)
Raised(out, e) == out.kind = "raise" /\ out.exc = e

\* the embeddings handed to a fusion module have base_latent channels
EmbMatches == res.rgb_emb.shape[2] = args.base_latent

\* the diversity losses of the stages a block has, summed
ActiveAdl(block, adl_m, adl_p) ==
    (IF block.modality_fusion # None THEN adl_m ELSE 0)
    + (IF block.point_fusion # None THEN adl_p ELSE 0)

\* C1: FusionBlock(n_layer_m = 0, n_layer_p = 0) fails with the assertion; with
\* at least one layer count > 0 construction succeeds and modality_fusion is
\* there iff n_layer_m > 0, point_fusion iff n_layer_p > 0.
C1_FusionBlockStages ==
    res.op = "FusionBlock.__init__" =>
        IF args.n_layer_m = 0 /\ args.n_layer_p = 0
           THEN Raised(res.out, "AssertionError") /\ obj = None
           ELSE /\ res.out.kind = "ok"
                /\ obj = res.out.value
                /\ (obj.modality_fusion # None) <=> (args.n_layer_m > 0)
                /\ (obj.point_fusion # None) <=> (args.n_layer_p > 0)
                /\ obj.modality_fusion # None => obj.modality_fusion.n_layers = args.n_layer_m
                /\ obj.point_fusion # None => obj.point_fusion.n_layers = args.n_layer_p

C1_Witness ==
    /\ res.op = "FusionBlock.__init__"
    /\ args.n_layer_m = 0 /\ args.n_layer_p > 0
    /\ res.out.kind = "ok"
    /\ obj.modality_fusion = None /\ obj.point_fusion # None

\* the layer a call of get_attention_map asks for
AskedLayer == IF res.layer_id = None THEN obj.n_layers - 1 ELSE res.layer_id.v

\* what the claim C2 says of a call: ValueError outside [0, n_layers), inside it
\* layers 0..layer_id-1 run and the map of layer layer_id comes back
RangeChecked ==
    IF AskedLayer < 0 \/ AskedLayer >= obj.n_layers
       THEN Raised(res.out, "ValueError")
       ELSE /\ res.out.kind = "ok"
            /\ res.out.value.class = "AttnMap"
            /\ res.out.value.layer = AskedLayer
            /\ res.out.value.ran = [i \in 1..AskedLayer |-> i - 1]

\* C2 as stated: for every BaseFormer, get_attention_map raises invalid-argument
\* for every layer_id outside [0, n_layers) and otherwise returns the map of
\* layer layer_id after running the layers before it; it never ends otherwise.
C2_AnyEncoderRangeChecked ==
    (res.op = "BaseFormer.get_attention_map" /\ res.feat.shape[2] = obj.feat_dim)
        => RangeChecked

\* C2 amended: the above holds for encoder_type 'pytorch'; a 'customized'
\* encoder raises not-implemented whatever layer_id is; any other encoder_type
\* returns None without raising.
C2_PerEncoderType ==
    (res.op = "BaseFormer.get_attention_map" /\ res.feat.shape[2] = obj.feat_dim)
        => CASE obj.encoder_type = "pytorch" -> RangeChecked
             [] obj.encoder_type = "customized" -> Raised(res.out, "NotImplementedError")
             [] OTHER -> res.out = Ok(None)

C2_Witness ==
    /\ res.op = "BaseFormer.get_attention_map"
    /\ obj.encoder_type = "pytorch" /\ obj.n_layers = 2
    /\ res.layer_id = Loss(1)
    /\ res.out.kind = "ok" /\ res.out.value.layer = 1 /\ res.out.value.ran = <<0>>

\* a call of PosePredictor.forward on a valid input with batch 1
ValidPoseInput ==
    /\ res.op = "PosePredictor.forward"
    /\ res.ap_x.shape = <<1, obj.feat_dim, obj.num_points>>
    /\ res.obj[1][1] < obj.num_obj

\* C3 as stated: the three outputs have the shapes (P,4), (P,3), (P,1).
C3_TwoDimShapes ==
    ValidPoseInput =>
        /\ res.out.kind = "ok"
        /\ res.out.value[1].shape = <<obj.num_points, 4>>
        /\ res.out.value[2].shape = <<obj.num_points, 3>>
        /\ res.out.value[3].shape = <<obj.num_points, 1>>

\* C3 amended: the three outputs have the shapes (1,P,4), (1,P,3), (1,P,1), the
\* leading axis being the one selected object, and hold the channels of object
\* obj of batch element 0 (the confidence after the sigmoid).
C3_SelectedObjectSlice ==
    ValidPoseInput =>
        /\ res.out.kind = "ok"
        /\ res.out.value[1].shape = <<1, obj.num_points, 4>>
        /\ res.out.value[2].shape = <<1, obj.num_points, 3>>
        /\ res.out.value[3].shape = <<1, obj.num_points, 1>>
        /\ \A p \in 0..(obj.num_points - 1) :
            LET o == res.obj[1][1]
            IN /\ \A j \in 0..3 :
                    At3(res.out.value[1], 0, p, j) = <<"conv_r", 0, o * 4 + j, p>>
               /\ \A j \in 0..2 :
                    At3(res.out.value[2], 0, p, j) = <<"conv_t", 0, o * 3 + j, p>>
               /\ At3(res.out.value[3], 0, p, 0) = <<"sigmoid", <<"conv_c", 0, o, p>>>>

C3_Witness ==
    /\ ValidPoseInput
    /\ obj.num_points = 2 /\ obj.num_obj = 2 /\ res.obj[1][1] = 1
    /\ res.out.kind = "ok"
    /\ res.out.value[1].shape = <<1, 2, 4>>

\* C4: in single-stage mode PoseFusion.forward returns, for every require_adl, a
\* non-null result that is the block's global_feat when point fusion is the
\* active stage and its cross_feat otherwise.
C4_SingleStageResult ==
    (res.op = "PoseFusion.forward" /\ ~obj.fusion_mode /\ EmbMatches) =>
        LET block == obj.layers[1]
            env == FusionBlock_locals(block, res.rgb_emb, res.pt_emb, None, FALSE,
                                      res.adl_m, res.adl_p)
            want == IF block.point_fusion # None THEN env.global_feat ELSE env.cross_feat
        IN /\ res.out.kind = "ok"
           /\ want # None
           /\ IF obj.require_adl THEN res.out.value[1] = want ELSE res.out.value = want

\* a PoseNet configuration that passes both configuration assertions
ValidNetArgs ==
    /\ args.embedding_dim = 2 * args.base_latent
    /\ args.layer_num_m > 0 \/ args.layer_num_p > 0

\* C5: the robust_loss PoseNet.forward returns is loss0, plus loss1 when
\* recon_choice is 'both', plus the diversity loss when require_adl is set, in
\* every fusion configuration.
C5_RobustLossSum ==
    (res.op = "PoseNet.forward" /\ ValidNetArgs) =>
        /\ res.out.kind = "ok"
        /\ res.out.value[6] =
              Loss(res.cdl_0
                   + (IF args.recon_choice = "both" THEN res.cdl_1 ELSE 0)
                   + (IF args.require_adl
                         THEN (IF args.layer_num_m > 0 THEN res.adl_m ELSE 0)
                              + (IF args.layer_num_p > 0 THEN res.adl_p ELSE 0)
                         ELSE 0))

\* C6: BaseFormer.forward applies the same sequence of sub-operations with the
\* same parameters to the embeddings in diagnostic and in standard mode.
C6_ModesAgree ==
    (res.op = "BaseFormer.forward" /\ res.out.kind = "ok") =>
        res.trace = BaseFormer_forward([obj EXCEPT !.require_adl = ~obj.require_adl],
                                       res.feat, res.adl_val).trace

\* C7: every call of FusionBlock.forward returns (cross_feat, global_feat, attn1,
\* attn2) when require_attn is asked, else (cross_feat, global_feat, adl) when
\* the block has require_adl, else (cross_feat, global_feat), for every
\* configuration of stages; PoseNet.get_attention_map returns both maps.
C7_ReturnShapes ==
    /\ (res.op = "FusionBlock.forward" /\ EmbMatches) =>
          /\ res.out.kind = "ok"
          /\ Len(res.out.value) =
                (IF res.require_attn THEN 4 ELSE IF obj.require_adl THEN 3 ELSE 2)
    /\ (res.op = "PoseNet.get_attention_map" /\ ValidNetArgs) =>
          /\ res.out.kind = "ok"
          /\ Len(res.out.value) = 2

\* C8: a FusionBlock built with require_adl and called without require_attn
\* returns as diversity loss the sum of the losses of its active stages.
C8_AdlIsSumOfActiveStages ==
    (res.op = "FusionBlock.forward" /\ obj.require_adl /\ ~res.require_attn /\ EmbMatches) =>
        /\ res.out.kind = "ok"
        /\ res.out.value[3] = Loss(ActiveAdl(obj, res.adl_m, res.adl_p))

\* C9: with embedding_dim = 2*base_latent the feature PoseFusion.forward returns
\* has as many channels as the feat_dim PoseNet gives PosePredictor, 4*base_latent
\* in fusion mode and 2*base_latent in single-stage mode, and the input fed to
\* the point-fusion BaseFormer has the modality_dim channels it was built for;
\* no shape error arises.
C9_ChannelsAgree ==
    /\ (res.op = "PoseFusion.forward" /\ EmbMatches) =>
          /\ res.out.kind = "raise" => res.out.exc # "RuntimeError"
          /\ ~obj.require_adl \/ obj.fusion_mode => res.out.kind = "ok"
          /\ res.out.kind = "ok" =>
                LET feat == IF obj.require_adl THEN res.out.value[1] ELSE res.out.value
                IN /\ feat.shape[2] = PosePredFeatDim(obj.fusion_mode, args.base_latent)
                   /\ feat.shape[2] = IF args.n_layer_m * args.n_layer_p > 0
                                         THEN 4 * args.base_latent
                                         ELSE 2 * args.base_latent
                   /\ feat.shape[1] = res.rgb_emb.shape[1]
                   /\ feat.shape[3] = res.rgb_emb.shape[3]
    /\ (res.op = "FusionBlock.forward" /\ EmbMatches /\ obj.point_fusion # None) =>
          /\ res.point_in # None
          /\ res.point_in.shape[2] = obj.point_fusion.feat_dim
          /\ res.out.kind = "raise" => res.out.exc # "RuntimeError"

C9_Witness ==
    /\ res.op = "PoseFusion.forward" /\ EmbMatches
    /\ obj.fusion_mode /\ obj.require_adl
    /\ res.out.kind = "ok"
    /\ res.out.value[1].shape[2] = 4 * args.base_latent

\* C10: constructing a PoseNet with embedding_dim = 2*base_latent and at least
\* one layer count > 0 runs to completion.
C10_ConstructionCompletes ==
    (res.op = "PoseNet.__init__" /\ ValidNetArgs) =>
        res.out.kind = "ok" /\ obj.class = "PoseNet"
====
